---- MODULE Spec2Model ----
(***************************************************************************)
(* Credential resolution, the process-wide current client and the webhook  *)
(* event factory of python-bandwidth (src/bandwidth/client.py and          *)
(* src/bandwidth_sdk/events.py).                                           *)
(*                                                                         *)
(* Program state: the module variable _global_client, the attributes of    *)
(* the bandwidth_sdk module read as fallback credentials, and the number   *)
(* of RESTClientObject instances built so far (object identity).  The      *)
(* environment variables and the files on disk are inputs of each call.    *)
(* ret records the last call: its inputs, what it returned or raised.      *)
(***************************************************************************)
EXTENDS Integers, Sequences, FiniteSets, TLC

VARIABLES global_client, sdk, allocated, ret, event

vars == <<global_client, sdk, allocated, ret, event>>

---------------------------------------------------------------------------
(* Python values *)

\* Python's None, as a credential or an environment lookup result.
None == "<None>"

\* A name that is not a key of os.environ.
Unset == "<unset>"

\* bool(v) of a str or None: empty strings and None are falsy.
Truthy(v) == v # None /\ v # ""

\* any((a, b, c)) and all((a, b, c)) over a 3-tuple.
Any3(t) == Truthy(t[1]) \/ Truthy(t[2]) \/ Truthy(t[3])

All3(t) == Truthy(t[1]) /\ Truthy(t[2]) /\ Truthy(t[3])

\* name in os.environ
InEnviron(environ, name) == environ[name] # Unset

\* os.environ.get(name): None when the name is not set.
EnvironGet(environ, name) == IF environ[name] = Unset THEN None ELSE environ[name]

\* The None object as a value of _global_client.
NoneClient == [kind |-> "None"]

\* bool(obj) of a client handle: None is falsy, an object is truthy unless
\* its class says otherwise (a mock standing in for the client may).
TruthyObj(h) ==
    CASE h.kind = "None" -> FALSE
      [] h.kind = "Mock" -> h.truth
      [] OTHER -> TRUE

---------------------------------------------------------------------------
(* Collaborators outside this package: rest.py and utils.py *)

\* RESTClientObject(user_id, (token, secret), endpoint=..., xml=...): a new
\* object (id is its identity) holding what it was constructed with.
RESTClientObject(id, principal, auth, endpoint, xml) ==
    [kind |-> "RESTClientObject", id |-> id, principal |-> principal,
     auth |-> auth, endpoint |-> endpoint, xml |-> xml]

\* utils.file_exists(path): the path names a file on disk.
file_exists(files, path) ==
    path \in DOMAIN files /\ files[path].state # "absent"

\* utils.get_creds_from_file(path) raises configparser.Error on a file that
\* is not INI text with a [catapult] section holding the three keys.
ParseFails(files, path) == files[path].state = "malformed"

\* utils.get_creds_from_file(path): the three values of the section.
get_creds_from_file(files, path) == files[path].creds

---------------------------------------------------------------------------
(* Error messages: the help text, the path formatted into it, and the      *)
(* docstring appended to it.                                               *)

Raise(exc, help, path, doc) ==
    [kind |-> "raise", branch |-> "", exc |-> exc, help |-> help,
     path |-> path, doc |-> doc, creds |-> <<None, None, None>>]

\* The branch fell through to the construction of the handle with creds.
Resolved(creds) ==
    [kind |-> "return", branch |-> "", exc |-> "", help |-> "",
     path |-> "", doc |-> "", creds |-> creds]

\* Which branch of the if/elif chain decided the call.
At(branch, r) == [r EXCEPT !.branch = branch]

\* _load_config(config_path): the credentials of the file, or ValueError
\* carrying _HELP_CONFIG_FORMAT % config_path and Client.__doc__.
_load_config(files, config_path) ==
    IF ParseFails(files, config_path)
    THEN Raise("ValueError", "_HELP_CONFIG_FORMAT", config_path, "Client.__doc__")
    ELSE Resolved(get_creds_from_file(files, config_path))

---------------------------------------------------------------------------
(* Client(user_id, token, secret): the if/elif chain up to the             *)
(* construction of the handle.                                             *)

\* Variant: only user_id is required of the arguments.
ClientArgsBranchIdOnly(args) ==
    IF ~Truthy(args[1])
    THEN Raise("ValueError", "_HELP_MISSING_PARAMS", "", "Client.__doc__")
    ELSE Resolved(args)

ClientArgsBranch(args) ==
    IF ~All3(args)
    THEN Raise("ValueError", "_HELP_MISSING_PARAMS", "", "Client.__doc__")
    ELSE Resolved(args)

ClientEnvBranch(environ) ==
    LET user_id == EnvironGet(environ, "BANDWIDTH_USER_ID")
        token   == EnvironGet(environ, "BANDWIDTH_API_TOKEN")
        secret  == EnvironGet(environ, "BANDWIDTH_API_SECRET")
    IN  IF ~All3(<<user_id, token, secret>>)
        THEN Raise("EnvironmentError", "_HELP_MISSING_ENV_VARS", "", "Client.__doc__")
        ELSE Resolved(<<user_id, token, secret>>)

\* Variant: a missing BANDWIDTH_CONFIG_FILE file falls back to .bndsdkrc.
ClientConfigFileBranchFallsThrough(environ, files) ==
    LET config_path == EnvironGet(environ, "BANDWIDTH_CONFIG_FILE")
    IN  IF file_exists(files, config_path)
        THEN _load_config(files, config_path)
        ELSE IF file_exists(files, ".bndsdkrc")
        THEN _load_config(files, ".bndsdkrc")
        ELSE Raise("ValueError", "_HELP_CONFIG_FILE_MISSING", config_path,
                   "Client.__doc__")

ClientConfigFileBranch(environ, files) ==
    LET config_path == EnvironGet(environ, "BANDWIDTH_CONFIG_FILE")
    IN  IF file_exists(files, config_path)
        THEN _load_config(files, config_path)
        ELSE Raise("ValueError", "_HELP_CONFIG_FILE_MISSING", config_path,
                   "Client.__doc__")

ClientResolve(args, environ, files, mod) ==
    IF Any3(args)
        THEN At("args", ClientArgsBranch(args))
    ELSE IF InEnviron(environ, "BANDWIDTH_USER_ID")
        THEN At("env", ClientEnvBranch(environ))
    ELSE IF InEnviron(environ, "BANDWIDTH_CONFIG_FILE")
        THEN At("config_file", ClientConfigFileBranch(environ, files))
    ELSE IF file_exists(files, ".bndsdkrc")
        THEN At("default_file", _load_config(files, ".bndsdkrc"))
    ELSE IF mod.user_id # None
        THEN At("module", Resolved(<<mod.user_id, mod.api_token, mod.api_secret>>))
    ELSE At("none", Raise("ValueError", "No configuration provided. ", "",
                          "Client.__doc__"))

---------------------------------------------------------------------------
(* _iris_client(account_id, username, password): the if/elif chain.  Each   *)
(* branch yields the outcome and the three values it stores in the         *)
(* bandwidth_sdk module (store = FALSE: the branch stores nothing).        *)

IRIS_ENDPOINT == "https://dashboard.bandwidth.com:443/v1.0/"

Stored(r, triple) == [out |-> r, store |-> TRUE, triple |-> triple]

NotStored(r) == [out |-> r, store |-> FALSE, triple |-> <<None, None, None>>]

IrisArgsBranch(args) ==
    IF ~All3(args)
    THEN NotStored(Raise("ValueError", "_HELP_MISSING_PARAMS", "",
                         "_iris_client.__doc__"))
    ELSE Stored(Resolved(args), args)

\* Variant: only BANDWIDTH_ACCOUNT_ID is required of the environment.
IrisEnvBranchIdOnly(args, environ) ==
    LET user_id == EnvironGet(environ, "BANDWIDTH_ACCOUNT_ID")
    IN  IF ~Truthy(user_id)
        THEN NotStored(Raise("EnvironmentError", "_HELP_MISSING_IRIS_ENV_VARS", "",
                             "_iris_client.__doc__"))
        ELSE Stored(Resolved(args), args)

\* The environment values are read into user_id, token and secret; the
\* module attributes and the handle are built from the parameters
\* account_id, username and password, which this branch never assigns.
IrisEnvBranch(args, environ) ==
    LET user_id == EnvironGet(environ, "BANDWIDTH_ACCOUNT_ID")
        token   == EnvironGet(environ, "BANDWIDTH_USERNAME")
        secret  == EnvironGet(environ, "BANDWIDTH_PASSWORD")
    IN  IF ~All3(<<user_id, token, secret>>)
        THEN NotStored(Raise("EnvironmentError", "_HELP_MISSING_IRIS_ENV_VARS", "",
                             "_iris_client.__doc__"))
        ELSE Stored(Resolved(args), args)

IrisLoad(files, config_path) ==
    LET r == _load_config(files, config_path)
    IN  IF r.kind = "raise" THEN NotStored(r) ELSE Stored(r, r.creds)

IrisConfigFileBranch(environ, files) ==
    LET config_path == EnvironGet(environ, "BANDWIDTH_CONFIG_FILE")
    IN  IF file_exists(files, config_path)
        THEN IrisLoad(files, config_path)
        ELSE NotStored(Raise("ValueError", "_HELP_CONFIG_FILE_MISSING", config_path,
                             "_iris_client.__doc__"))

IrisModuleBranch(mod) ==
    LET creds == <<mod.account_id, mod.username, mod.password>>
    IN  IF ~All3(creds)
        THEN NotStored(Raise("EnvironmentError", "_HELP_MISSING_ENV_VARS", "",
                             "_iris_client.__doc__"))
        ELSE NotStored(Resolved(creds))

IrisBranchOf(b, x) == [x EXCEPT !.out = At(b, x.out)]

IrisResolve(args, environ, files, mod) ==
    IF Any3(args)
        THEN IrisBranchOf("args", IrisArgsBranch(args))
    ELSE IF InEnviron(environ, "BANDWIDTH_ACCOUNT_ID")
        THEN IrisBranchOf("env", IrisEnvBranch(args, environ))
    ELSE IF InEnviron(environ, "BANDWIDTH_CONFIG_FILE")
        THEN IrisBranchOf("config_file", IrisConfigFileBranch(environ, files))
    ELSE IF file_exists(files, ".bndsdkrc")
        THEN IrisBranchOf("default_file", IrisLoad(files, ".bndsdkrc"))
    ELSE IF mod.account_id # None
        THEN IrisBranchOf("module", IrisModuleBranch(mod))
    ELSE IrisBranchOf("none",
             NotStored(Raise("ValueError", "No configuration provided. ", "",
                             "_iris_client.__doc__")))

---------------------------------------------------------------------------
(* The calls, as actions.  environ and files are what os.environ and the   *)
(* disk hold while the call runs.                                          *)

\* What the module variables are before the first call.
ModuleAtImport ==
    [user_id |-> None, api_token |-> None, api_secret |-> None,
     account_id |-> None, username |-> None, password |-> None,
     iris_endpoint |-> None]

\* The body of Client(): the outcome, the handle returned (None when it
\* raised) and the value of _global_client afterwards.
ClientBody(args, environ, files) ==
    LET r == ClientResolve(args, environ, files, sdk)
        h == RESTClientObject(allocated + 1, r.creds[1], <<r.creds[2], r.creds[3]>>,
                              None, FALSE)
    IN  IF r.kind = "raise"
        THEN [out |-> r, value |-> NoneClient, client |-> global_client,
              built |-> 0]
        ELSE [out |-> r, value |-> h, client |-> h, built |-> 1]

Client(args, environ, files) ==
    LET b == ClientBody(args, environ, files)
    IN  /\ global_client' = b.client
        /\ allocated' = allocated + b.built
        /\ ret' = [op |-> "Client", args |-> args, environ |-> environ,
                   files |-> files, mod |-> sdk, before |-> global_client,
                   out |-> b.out, value |-> b.value]
        /\ UNCHANGED <<sdk, event>>

\* The body of _iris_client().
IrisBody(args, environ, files) ==
    LET x == IrisResolve(args, environ, files, sdk)
        r == x.out
        _endpoint == IF sdk.iris_endpoint # None THEN sdk.iris_endpoint
                     ELSE IRIS_ENDPOINT
        h == RESTClientObject(allocated + 1, r.creds[1], <<r.creds[2], r.creds[3]>>,
                              _endpoint, TRUE)
    IN  [out |-> r,
         value |-> IF r.kind = "raise" THEN NoneClient ELSE h,
         built |-> IF r.kind = "raise" THEN 0 ELSE 1,
         mod |-> IF x.store
                 THEN [sdk EXCEPT !.account_id = x.triple[1],
                                  !.username = x.triple[2],
                                  !.password = x.triple[3]]
                 ELSE sdk]

\* Variant: the dashboard constructor installs the handle it builds.
IrisCallInstalls(op, args, environ, files) ==
    LET b == IrisBody(args, environ, files)
    IN  /\ sdk' = b.mod
        /\ allocated' = allocated + b.built
        /\ global_client' = IF b.built = 1 THEN b.value ELSE global_client
        /\ ret' = [op |-> op, args |-> args, environ |-> environ,
                   files |-> files, mod |-> sdk, before |-> global_client,
                   out |-> b.out, value |-> b.value]
        /\ UNCHANGED event

IrisCall(op, args, environ, files) ==
    LET b == IrisBody(args, environ, files)
    IN  /\ sdk' = b.mod
        /\ allocated' = allocated + b.built
        /\ ret' = [op |-> op, args |-> args, environ |-> environ,
                   files |-> files, mod |-> sdk, before |-> global_client,
                   out |-> b.out, value |-> b.value]
        /\ UNCHANGED <<global_client, event>>

_iris_client(args, environ, files) == IrisCall("_iris_client", args, environ, files)

\* get_iris_client(): _iris_client() with its defaults.
get_iris_client(environ, files) ==
    IrisCall("get_iris_client", <<"", "", "">>, environ, files)

\* Variant: get_client() resolves only when _global_client is None.
get_client_is_none(environ, files) ==
    IF global_client = NoneClient
    THEN LET b == ClientBody(<<None, None, None>>, environ, files)
         IN  /\ global_client' = b.client
             /\ allocated' = allocated + b.built
             /\ ret' = [op |-> "get_client", args |-> <<None, None, None>>,
                        environ |-> environ, files |-> files, mod |-> sdk,
                        before |-> global_client, out |-> b.out,
                        value |-> b.value, resolved |-> TRUE,
                        prev |-> ret.op]
             /\ UNCHANGED <<sdk, event>>
    ELSE /\ ret' = [op |-> "get_client", args |-> <<None, None, None>>,
                    environ |-> environ, files |-> files, mod |-> sdk,
                    before |-> global_client, out |-> Resolved(<<None, None, None>>),
                    value |-> global_client, resolved |-> FALSE,
                    prev |-> ret.op]
         /\ UNCHANGED <<global_client, sdk, allocated, event>>

\* get_client(): Client() with its defaults when _global_client is falsy.
get_client(environ, files) ==
    IF ~TruthyObj(global_client)
    THEN LET b == ClientBody(<<None, None, None>>, environ, files)
         IN  /\ global_client' = b.client
             /\ allocated' = allocated + b.built
             /\ ret' = [op |-> "get_client", args |-> <<None, None, None>>,
                        environ |-> environ, files |-> files, mod |-> sdk,
                        before |-> global_client, out |-> b.out,
                        value |-> b.value, resolved |-> TRUE,
                        prev |-> ret.op]
             /\ UNCHANGED <<sdk, event>>
    ELSE /\ ret' = [op |-> "get_client", args |-> <<None, None, None>>,
                    environ |-> environ, files |-> files, mod |-> sdk,
                    before |-> global_client, out |-> Resolved(<<None, None, None>>),
                    value |-> global_client, resolved |-> FALSE,
                    prev |-> ret.op]
         /\ UNCHANGED <<global_client, sdk, allocated, event>>

\* Variant: set_client returns the client it installs.
SetClientReturnsNew(previous, client) == client

\* set_client(client): previous = _global_client; _global_client = client.
SetClientReturn(previous, client) == previous

set_client(client) ==
    /\ global_client' = client
    /\ ret' = [op |-> "set_client", client |-> client, before |-> global_client,
               value |-> SetClientReturn(global_client, client)]
    /\ UNCHANGED <<sdk, allocated, event>>

\* bandwidth_sdk.user_id = ..., bandwidth_sdk.account_id = ...: the caller
\* assigns the module attributes the fallback branches read.
AssignModule(m) ==
    /\ sdk' = m
    /\ ret' = [op |-> "assign"]
    /\ UNCHANGED <<global_client, allocated, event>>

---------------------------------------------------------------------------
(* Inputs *)

\* Client's arguments: each its default None or a value.
ClientArgs == {<<u, t, s>> : u \in {None, "u-arg"}, t \in {None, "t-arg"},
                             s \in {None, "s-arg"}}

\* _iris_client's arguments: each its default '' or a value.
IrisArgs == {<<a, n, p>> : a \in {"", "a-arg"}, n \in {"", "n-arg"},
                           p \in {"", "p-arg"}}

CfgPath == "/etc/bandwidth.cfg"

\* os.environ: each variable unset, set to the empty string or set to a value.
Environs ==
    [BANDWIDTH_USER_ID     : {Unset, "", "u-env"},
     BANDWIDTH_API_TOKEN   : {Unset, "", "t-env"},
     BANDWIDTH_API_SECRET  : {Unset, "", "s-env"},
     BANDWIDTH_ACCOUNT_ID  : {Unset, "", "a-env"},
     BANDWIDTH_USERNAME    : {Unset, "", "n-env"},
     BANDWIDTH_PASSWORD    : {Unset, "", "p-env"},
     BANDWIDTH_CONFIG_FILE : {Unset, CfgPath}]

TelephonyVars == {"BANDWIDTH_USER_ID", "BANDWIDTH_API_TOKEN", "BANDWIDTH_API_SECRET"}

DashboardVars == {"BANDWIDTH_ACCOUNT_ID", "BANDWIDTH_USERNAME", "BANDWIDTH_PASSWORD"}

\* The environments in which none of the variables in names is set.
Without(names) == {e \in Environs : \A n \in names : e[n] = Unset}

\* A file: absent, present and not parsable, or present with three values.
FileStates(tag) ==
    {[state |-> "absent", creds |-> <<None, None, None>>],
     [state |-> "malformed", creds |-> <<None, None, None>>],
     [state |-> "ok", creds |-> <<"1-" \o tag, "2-" \o tag, "3-" \o tag>>]}

Disks == {(CfgPath :> c) @@ (".bndsdkrc" :> d) :
             c \in FileStates("cfg"), d \in FileStates("rc")}

\* Values the caller may have assigned to the module attributes.
TelephonyModule ==
    {<<None, None, None>>, <<"", "t-mod", "s-mod">>,
     <<"u-mod", "t-mod", "s-mod">>, <<"u-mod", None, None>>}

DashboardModule ==
    {<<None, None, None>>, <<"", "n-mod", "p-mod">>,
     <<"a-mod", "n-mod", "p-mod">>, <<"a-mod", None, "p-mod">>,
     <<"a-mod", "n-mod", "">>}

Modules ==
    {[user_id |-> t[1], api_token |-> t[2], api_secret |-> t[3],
      account_id |-> d[1], username |-> d[2], password |-> d[3],
      iris_endpoint |-> e] :
        t \in TelephonyModule, d \in DashboardModule,
        e \in {None, "https://localhost/v1.0/"}}

---------------------------------------------------------------------------
(* One resolution from any state of the module attributes, in any          *)
(* environment and with any files on disk.                                 *)

InitResolve ==
    /\ global_client = NoneClient
    /\ sdk \in Modules
    /\ allocated = 0
    /\ ret = [op |-> "none"]
    /\ event = [op |-> "none"]

ResolveTelephony ==
    /\ ret.op = "none"
    /\ \E args \in ClientArgs, environ \in Without(DashboardVars), files \in Disks :
           Client(args, environ, files)

ResolveDashboard ==
    /\ ret.op = "none"
    /\ \E args \in IrisArgs, environ \in Without(TelephonyVars), files \in Disks :
           _iris_client(args, environ, files)

NextResolve == ResolveTelephony \/ ResolveDashboard

SpecResolve == InitResolve /\ [][NextResolve]_vars

---------------------------------------------------------------------------
(* Properties of one resolution (SpecResolve) *)

Resolvers == {"Client", "_iris_client", "get_iris_client"}

IsResolution == ret.op \in Resolvers

\* How many of the three explicit arguments are non-empty.
Given(args) == Cardinality({i \in 1..3 : Truthy(args[i])})

\* The call raised exc and returned no handle.
Failed(exc) ==
    /\ ret.out.kind = "raise"
    /\ ret.out.exc = exc
    /\ ret.value = NoneClient

\* The call returned a handle carrying (creds[1], (creds[2], creds[3])).
Succeeded(creds) ==
    /\ ret.out.kind = "return"
    /\ ret.value.kind = "RESTClientObject"
    /\ ret.value.principal = creds[1]
    /\ ret.value.auth = <<creds[2], creds[3]>>

\* C1: for Client and for _iris_client, in any environment, with any files
\* on disk and any module attributes: one or two non-empty arguments out of
\* three make the call raise ValueError and return no handle; three
\* non-empty arguments make it return a handle carrying exactly
\* (arg1, (arg2, arg3)).
C1_ExplicitArguments ==
    IsResolution =>
        /\ Given(ret.args) \in {1, 2} => Failed("ValueError")
        /\ Given(ret.args) = 3 => Succeeded(ret.args)

\* Both cases of C1 against competing sources: the dashboard constructor
\* given all three arguments while its environment variables are all set.
C1_Witness ==
    /\ ret.op = "_iris_client"
    /\ Given(ret.args) = 3
    /\ ret.environ.BANDWIDTH_ACCOUNT_ID = "a-env"
    /\ ret.environ.BANDWIDTH_USERNAME = "n-env"
    /\ ret.environ.BANDWIDTH_PASSWORD = "p-env"
    /\ ret.files[".bndsdkrc"].state = "ok"
    /\ ret.value.principal = "a-arg"
    /\ ret.value.auth = <<"n-arg", "p-arg">>

\* The sources in the order of the claim.
Priority ==
    <<"args", "env", "config_file", "default_file", "module", "none">>

Rank(b) == CHOOSE i \in 1..Len(Priority) : Priority[i] = b

IdVar(op) == IF op = "Client" THEN "BANDWIDTH_USER_ID" ELSE "BANDWIDTH_ACCOUNT_ID"

ModuleId(op, mod) == IF op = "Client" THEN mod.user_id ELSE mod.account_id

\* The first source whose trigger is present: an argument given, the id
\* variable set, BANDWIDTH_CONFIG_FILE set, .bndsdkrc on disk, the id
\* attribute of the module assigned.
FirstTrigger(op, args, environ, files, mod) ==
    CASE Given(args) > 0 -> "args"
      [] Given(args) = 0 /\ environ[IdVar(op)] # Unset -> "env"
      [] OTHER ->
            IF environ.BANDWIDTH_CONFIG_FILE # Unset THEN "config_file"
            ELSE IF files[".bndsdkrc"].state # "absent" THEN "default_file"
            ELSE IF ModuleId(op, mod) # None THEN "module"
            ELSE "none"

\* The inputs with every source of lower priority than b taken away.
EraseEnviron(b, environ) ==
    [n \in DOMAIN environ |->
        IF \/ Rank(b) < Rank("env") /\ n # "BANDWIDTH_CONFIG_FILE"
           \/ Rank(b) < Rank("config_file") /\ n = "BANDWIDTH_CONFIG_FILE"
        THEN Unset ELSE environ[n]]

EraseFiles(b, files) ==
    [p \in DOMAIN files |->
        IF \/ Rank(b) < Rank("config_file") /\ p = CfgPath
           \/ Rank(b) < Rank("default_file") /\ p = ".bndsdkrc"
        THEN [state |-> "absent", creds |-> <<None, None, None>>]
        ELSE files[p]]

EraseModule(b, mod) ==
    IF Rank(b) < Rank("module")
    THEN [ModuleAtImport EXCEPT !.iris_endpoint = mod.iris_endpoint]
    ELSE mod

\* The outcome of the resolver of op on the given inputs.
Outcome(op, args, environ, files, mod) ==
    IF op = "Client"
    THEN ClientResolve(args, environ, files, mod)
    ELSE IrisResolve(args, environ, files, mod).out

\* C2: the branch that decides a resolution is the first source, in the
\* order arguments, id environment variable, BANDWIDTH_CONFIG_FILE,
\* .bndsdkrc, module attributes, whose trigger is present, and the outcome
\* (credentials or error) is the one the call has with every lower source
\* taken away: no lower source is consulted.
C2_FirstBranchDecides ==
    IsResolution =>
        LET b == FirstTrigger(ret.op, ret.args, ret.environ, ret.files, ret.mod)
        IN  /\ ret.out.branch = b
            /\ ret.out = Outcome(ret.op, ret.args, EraseEnviron(b, ret.environ),
                                 EraseFiles(b, ret.files), EraseModule(b, ret.mod))
            /\ ret.out.kind = "return" => Succeeded(ret.out.creds)

\* BANDWIDTH_CONFIG_FILE names a missing file while .bndsdkrc is well formed
\* and the module attributes are assigned: the call fails.
C2_Witness ==
    /\ ret.op = "_iris_client"
    /\ Given(ret.args) = 0
    /\ ret.environ.BANDWIDTH_ACCOUNT_ID = Unset
    /\ ret.environ.BANDWIDTH_CONFIG_FILE = CfgPath
    /\ ret.files[CfgPath].state = "absent"
    /\ ret.files[".bndsdkrc"].state = "ok"
    /\ ret.mod.account_id = "a-mod"
    /\ ret.out.branch = "config_file"
    /\ Failed("ValueError")

\* The three credential variables of the resolver of op.
CredVars(op) == IF op = "Client" THEN TelephonyVars ELSE DashboardVars

\* At least one of the three is set and non-empty, at least one is not.
PartiallySet(op, environ) ==
    /\ \E n \in CredVars(op) : Truthy(EnvironGet(environ, n))
    /\ \E n \in CredVars(op) : ~Truthy(EnvironGet(environ, n))

\* C3 as stated: without arguments, partially set credential variables make
\* the resolution raise EnvironmentError, whichever variable is set.
C3_AnyPartialEnvironmentFails ==
    IsResolution /\ Given(ret.args) = 0 /\ PartiallySet(ret.op, ret.environ)
        => ret.out.branch = "env" /\ Failed("EnvironmentError")

\* C3 amended: without arguments, when the id variable is set (even empty)
\* and one of the three variables is missing or empty, the resolution is
\* decided in the environment branch and raises EnvironmentError; when the
\* id variable is not set the environment branch is not taken, whatever the
\* two companion variables hold.
C3_PartialEnvironmentWithIdFails ==
    IsResolution /\ Given(ret.args) = 0 =>
        LET id == ret.environ[IdVar(ret.op)]
            incomplete == \E n \in CredVars(ret.op) :
                              ~Truthy(EnvironGet(ret.environ, n))
        IN  /\ id # Unset /\ incomplete
                => ret.out.branch = "env" /\ Failed("EnvironmentError")
            /\ id = Unset => ret.out.branch # "env"

\* Only the id variable is set, and a well-formed config file is at hand.
C3_Witness ==
    /\ ret.op = "Client"
    /\ Given(ret.args) = 0
    /\ ret.environ.BANDWIDTH_USER_ID = "u-env"
    /\ ret.environ.BANDWIDTH_API_TOKEN = Unset
    /\ ret.environ.BANDWIDTH_API_SECRET = Unset
    /\ ret.environ.BANDWIDTH_CONFIG_FILE = CfgPath
    /\ ret.files[CfgPath].state = "ok"
    /\ Failed("EnvironmentError")

\* The docstring of the entry point a call went through.
UsageOf(op) == IF op = "Client" THEN "Client.__doc__" ELSE "_iris_client.__doc__"

\* C10: every error a resolution raises carries the usage text of the entry
\* point that was called.
C10_ErrorCarriesOwnUsage ==
    IsResolution /\ ret.out.kind = "raise" => ret.out.doc = UsageOf(ret.op)

---------------------------------------------------------------------------
(* The process: any sequence of calls from the state at import.            *)

\* How many RESTClientObject instances a run builds at most.
MaxHandles == 2

\* A stand-in for the client, as a test installs with set_client; truth is
\* what bool() of it gives.
Mock(truth) == [kind |-> "Mock", truth |-> truth]

\* What a caller can pass to set_client: None, a stand-in, the current
\* client, or the handle the last call returned.
Held ==
    {NoneClient, Mock(TRUE), Mock(FALSE), global_client}
        \cup (IF ret.op \in {"none", "assign"} THEN {} ELSE {ret.value})

SomeClientArgs ==
    {<<None, None, None>>, <<"u-arg", None, None>>, <<"u-arg", "t-arg", "s-arg">>}

SomeIrisArgs ==
    {<<"", "", "">>, <<"a-arg", "n-arg", "p-arg">>}

\* Nothing set, or all six credential variables set.
SomeEnvirons ==
    {e \in Without({"BANDWIDTH_CONFIG_FILE"}) :
        \/ \A n \in TelephonyVars \cup DashboardVars : e[n] = Unset
        \/ \A n \in TelephonyVars \cup DashboardVars : Truthy(EnvironGet(e, n))}

NoFiles == {d \in Disks : \A p \in DOMAIN d : d[p].state = "absent"}

SomeModules ==
    {m \in Modules : /\ m.iris_endpoint = None
                     /\ m.user_id \in {None, "u-mod"}
                     /\ m.account_id = None}

Init ==
    /\ global_client = NoneClient
    /\ sdk = ModuleAtImport
    /\ allocated = 0
    /\ ret = [op |-> "none"]
    /\ event = [op |-> "none"]

CallClient ==
    /\ allocated < MaxHandles
    /\ \E args \in SomeClientArgs, environ \in SomeEnvirons, files \in NoFiles :
           Client(args, environ, files)

CallGetClient ==
    /\ allocated < MaxHandles
    /\ \E environ \in SomeEnvirons, files \in NoFiles : get_client(environ, files)

CallSetClient == \E client \in Held : set_client(client)

CallIrisClient ==
    /\ allocated < MaxHandles
    /\ \E args \in SomeIrisArgs, environ \in SomeEnvirons, files \in NoFiles :
           _iris_client(args, environ, files)

CallGetIrisClient ==
    /\ allocated < MaxHandles
    /\ \E environ \in SomeEnvirons, files \in NoFiles :
           get_iris_client(environ, files)

CallAssignModule == \E m \in SomeModules : AssignModule(m)

Next ==
    \/ CallClient
    \/ CallGetClient
    \/ CallSetClient
    \/ CallIrisClient
    \/ CallGetIrisClient
    \/ CallAssignModule

Spec == Init /\ [][Next]_vars

---------------------------------------------------------------------------
(* Properties of the current client (Spec) *)

\* get_client() right after set_client(h).
GetAfterSet == ret.op = "set_client" /\ ret'.op = "get_client"

\* get_client() hands back the client just set and resolves nothing.
ReturnsTheSetClient ==
    /\ ret'.value = ret.client
    /\ ~ret'.resolved
    /\ allocated' = allocated
    /\ global_client' = ret.client

\* C4 as stated: for every h, None and falsy objects included, set_client(h)
\* followed at once by get_client() returns h without resolving.
C4_GetReturnsWhateverWasSet == [][GetAfterSet => ReturnsTheSetClient]_vars

\* C4 amended: set_client(h) followed at once by get_client() returns h
\* itself without resolving when h is truthy; when h is None or another
\* falsy object, get_client() runs Client() with no arguments and returns
\* what that returns or raises what that raises.
C4_GetReturnsTruthySetClient ==
    [][GetAfterSet =>
          IF TruthyObj(ret.client)
          THEN ReturnsTheSetClient
          ELSE /\ ret'.resolved
               /\ ret'.out = ClientResolve(<<None, None, None>>, ret'.environ,
                                           ret'.files, sdk)
               /\ ret'.out.kind = "return" =>
                      /\ ret'.value.id = allocated + 1
                      /\ global_client' = ret'.value
               /\ ret'.out.kind = "raise" =>
                      /\ ret'.value = NoneClient
                      /\ global_client' = ret.client]_vars

\* get_client() right after set_client(mock), in an environment in which a
\* resolution would have succeeded: the mock comes back.
C4_Witness ==
    /\ ret.op = "get_client"
    /\ ret.prev = "set_client"
    /\ ret.value = Mock(TRUE)
    /\ ~ret.resolved
    /\ ret.environ.BANDWIDTH_USER_ID = "u-env"
    /\ ret.environ.BANDWIDTH_API_TOKEN = "t-env"
    /\ ret.environ.BANDWIDTH_API_SECRET = "s-env"

\* The call installs a client: a Client() that returns (called directly or
\* by get_client()), or any set_client().
Installs(r) ==
    \/ r.op = "Client" /\ r.out.kind = "return"
    \/ r.op = "get_client" /\ r.resolved /\ r.out.kind = "return"
    \/ r.op = "set_client"

Installed(r) == IF r.op = "set_client" THEN r.client ELSE r.value

\* C5: the current client is None until a client is installed and then the
\* one installed by the latest successful Client() or set_client(); what
\* set_client(h2) returns is the current client of the moment it is called,
\* and h2 is the current client afterwards.
C5_SetClientReturnsPrevious ==
    [][/\ Installs(ret') => global_client' = Installed(ret')
       /\ ~Installs(ret') => global_client' = global_client
       /\ ret'.op = "set_client" =>
              /\ ret'.value = global_client
              /\ global_client' = ret'.client]_vars

\* set_client(mock) returned the handle a Client() call had installed.
C5_Witness ==
    /\ ret.op = "set_client"
    /\ ret.value.kind = "RESTClientObject"
    /\ ret.value.xml = FALSE
    /\ ret.client = Mock(TRUE)
    /\ global_client = Mock(TRUE)

IsDashboardCall(r) == r.op \in {"_iris_client", "get_iris_client"}

\* C6: a Client() call that returns makes the handle it built, a new object,
\* the current client; a call of _iris_client() or get_iris_client(),
\* returning or raising, leaves the current client as it was, and the handle
\* it returns is a new object, not the current client.
C6_OnlyTelephonyInstalls ==
    [][/\ ret'.op = "Client" /\ ret'.out.kind = "return" =>
              /\ global_client' = ret'.value
              /\ ret'.value.id = allocated + 1
       /\ IsDashboardCall(ret') =>
              /\ global_client' = global_client
              /\ ret'.out.kind = "return" =>
                     /\ ret'.value.id = allocated + 1
                     /\ ret'.value # global_client']_vars

\* A dashboard handle was built while a telephony handle was current.
C6_Witness ==
    /\ IsDashboardCall(ret)
    /\ ret.out.kind = "return"
    /\ ret.value.xml = TRUE
    /\ global_client.kind = "RESTClientObject"
    /\ global_client.xml = FALSE
    /\ global_client = ret.before

---------------------------------------------------------------------------
(* Webhook events: src/bandwidth_sdk/events.py *)

\* _events: the registry, event type to variant class.
_events ==
    ("hangup" :> "HangupCallEvent") @@
    ("answer" :> "AnswerCallEvent") @@
    ("incomingcall" :> "IncomingCallEvent") @@
    ("gather" :> "GatherCallEvent") @@
    ("speak" :> "SpeakCallEvent") @@
    ("playback" :> "PlaybackCallEvent") @@
    ("error" :> "ErrorCallEvent") @@
    ("timeout" :> "TimeoutCallEvent") @@
    ("recording" :> "RecordingCallEvent") @@
    ("sms" :> "SmsEvent") @@
    ("conference" :> "ConferenceEvent") @@
    ("conference-member" :> "ConferenceMemberEvent") @@
    ("conference-speak" :> "ConferenceSpeakEvent") @@
    ("conference-playback" :> "ConferencePlaybackEvent") @@
    ("dtmf" :> "DtmfCallEvent")

\* The _fields frozenset of each variant class.
_fields(cls) ==
    CASE cls = "HangupCallEvent" ->
            {"call_id", "event_type", "from_", "to", "call_uri", "call_state",
             "time", "cause", "tag"}
      [] cls = "AnswerCallEvent" ->
            {"call_id", "event_type", "from_", "to", "call_uri", "call_state",
             "time", "application_id", "tag"}
      [] cls = "IncomingCallEvent" ->
            {"call_id", "event_type", "from_", "to", "call_uri", "call_state",
             "time", "application_id", "tag"}
      [] cls = "GatherCallEvent" ->
            {"call_id", "event_type", "state", "digits", "tag", "time",
             "gather_id", "reason"}
      [] cls = "SpeakCallEvent" ->
            {"call_id", "event_type", "status", "state", "call_uri", "tag",
             "time"}
      [] cls = "PlaybackCallEvent" ->
            {"call_id", "event_type", "from_", "to", "call_uri", "tag", "time"}
      [] cls = "ErrorCallEvent" ->
            {"call_id", "event_type", "from_", "to", "call_uri", "call_state",
             "time", "tag"}
      [] cls = "TimeoutCallEvent" ->
            {"call_id", "event_type", "from_", "to", "call_uri", "time", "tag"}
      [] cls = "RecordingCallEvent" ->
            {"call_id", "event_type", "recording_id", "recording_uri",
             "state", "status", "start_time", "end_time", "tag"}
      [] cls = "SmsEvent" ->
            {"event_type", "direction", "message_id", "message_uri", "from_",
             "to", "text", "application_id", "time", "state"}
      [] cls = "ConferenceEvent" ->
            {"event_type", "conference_id", "conference_uri", "status",
             "created_time", "completed_time"}
      [] cls = "ConferenceMemberEvent" ->
            {"event_type", "conference_id", "call_id", "active_members",
             "hold", "member_id", "member_uri", "mute", "state", "time"}
      [] cls = "ConferenceSpeakEvent" ->
            {"event_type", "conference_id", "conference_uri", "status", "time"}
      [] cls = "ConferencePlaybackEvent" ->
            {"event_type", "conference_id", "conference_uri", "status", "time"}
      [] cls = "DtmfCallEvent" ->
            {"event_type", "call_id", "call_uri", "time", "dtmf_digit",
             "dtmf_duration", "tag"}
      [] OTHER -> {"call_id"}

\* The attributes each variant class defines, with its bases: all None.
ClassAttributes(cls) ==
    CASE cls = "HangupCallEvent" ->
            {"call_id", "call_state", "call_uri", "cause", "event_type",
             "from_", "tag", "time", "to"}
      [] cls = "AnswerCallEvent" ->
            {"application_id", "call_id", "call_state", "call_uri",
             "event_type", "from_", "tag", "time", "to"}
      [] cls = "IncomingCallEvent" ->
            {"application_id", "call_id", "call_state", "call_uri",
             "event_type", "from_", "tag", "time", "to"}
      [] cls = "GatherCallEvent" ->
            {"call_id", "digits", "event_type", "gather_id", "reason",
             "state", "tag", "time"}
      [] cls = "SpeakCallEvent" ->
            {"call_id", "call_uri", "event_type", "state", "status", "tag",
             "time"}
      [] cls = "PlaybackCallEvent" ->
            {"call_id", "call_uri", "event_type", "status", "tag", "time"}
      [] cls = "ErrorCallEvent" ->
            {"call_id", "call_state", "call_uri", "event_type", "from_",
             "tag", "time", "to"}
      [] cls = "TimeoutCallEvent" ->
            {"call_id", "call_uri", "event_type", "from_", "tag", "time", "to"}
      [] cls = "RecordingCallEvent" ->
            {"call_id", "end_time", "event_type", "recording_id",
             "recording_uri", "start_time", "state", "status", "tag"}
      [] cls = "SmsEvent" ->
            {"application_id", "call_id", "direction", "event_type", "from_",
             "message_id", "message_uri", "state", "text", "time", "to"}
      [] cls = "ConferenceEvent" ->
            {"call_id", "completed_time", "conference_id", "conference_uri",
             "created_time", "event_type", "status"}
      [] cls = "ConferenceMemberEvent" ->
            {"active_members", "call_id", "conference_id", "event_type",
             "hold", "member_id", "member_uri", "mute", "state", "time"}
      [] cls = "ConferenceSpeakEvent" ->
            {"call_id", "conference_id", "conference_uri", "event_type",
             "status", "time"}
      [] cls = "ConferencePlaybackEvent" ->
            {"call_id", "conference_id", "conference_uri", "event_type",
             "status", "time"}
      [] cls = "DtmfCallEvent" ->
            {"call_id", "call_uri", "dtmf_digit", "dtmf_duration",
             "event_type", "tag", "time"}
      [] OTHER -> {"call_id"}

\* A key that a payload does not hold.
Missing == "<missing>"

\* utils.from_api on one key: the camel-case wire name in snake case.
underscoreize(key) ==
    CASE key = "eventType" -> "event_type"
      [] key = "callId" -> "call_id"
      [] key = "conferenceId" -> "conference_id"
      [] key = "extraneousField" -> "extraneous_field"
      [] OTHER -> key

\* utils.from_api(data): the mapping with every key rewritten.
from_api(data) ==
    [k \in {underscoreize(w) : w \in DOMAIN data} |->
        data[CHOOSE w \in DOMAIN data : underscoreize(w) = k]]

\* dict.get(key, default)
DictGet(d, key, default) == IF key \in DOMAIN d THEN d[key] ELSE default

\* Variant: every keyword is set on the instance.
EventTypeInitUnfiltered(cls, kwargs) ==
    LET from_ == DictGet(kwargs, "from", None)
        popped == [k \in DOMAIN kwargs \ {"from"} |-> kwargs[k]]
        renamed == IF Truthy(from_)
                   THEN [k \in DOMAIN popped \cup {"from_"} |->
                            IF k = "from_" THEN from_ ELSE popped[k]]
                   ELSE popped
    IN  renamed

\* EventType.__init__(self, **kwargs): the attributes set on the instance.
EventTypeInit(cls, kwargs) ==
    LET from_ == DictGet(kwargs, "from", None)
        popped == [k \in DOMAIN kwargs \ {"from"} |-> kwargs[k]]
        renamed == IF Truthy(from_)
                   THEN [k \in DOMAIN popped \cup {"from_"} |->
                            IF k = "from_" THEN from_ ELSE popped[k]]
                   ELSE popped
    IN  [attr \in DOMAIN renamed \cap _fields(cls) |-> renamed[attr]]

\* No attribute is set: the instance dictionary of a call that raised.
NoAttributes == [attr \in {} |-> None]

\* Variant: a payload without event_type is taken for a hangup.
EventCreateDefaultsToHangup(api_data) ==
    LET event_as_dict == from_api(api_data)
        event_type == DictGet(event_as_dict, "event_type", "hangup")
    IN  IF event_type \notin DOMAIN _events
        THEN [kind |-> "raise", exc |-> "ValueError", named |-> event_as_dict,
              cls |-> "", attrs |-> NoAttributes]
        ELSE [kind |-> "return", exc |-> "", named |-> NoAttributes,
              cls |-> _events[event_type],
              attrs |-> EventTypeInit(_events[event_type], event_as_dict)]

\* Event.create on the decoded payload: the error, or the class of the
\* instance and the attributes set on it.
EventCreate(api_data) ==
    LET event_as_dict == from_api(api_data)
        event_type == DictGet(event_as_dict, "event_type", "")
    IN  IF event_type \notin DOMAIN _events
        THEN [kind |-> "raise", exc |-> "ValueError", named |-> event_as_dict,
              cls |-> "", attrs |-> NoAttributes]
        ELSE [kind |-> "return", exc |-> "", named |-> NoAttributes,
              cls |-> _events[event_type],
              attrs |-> EventTypeInit(_events[event_type], event_as_dict)]

\* Reading attribute name of an instance: the instance dictionary, then the
\* classes, else AttributeError.
GetAttr(e, name) ==
    IF name \in DOMAIN e.attrs THEN e.attrs[name]
    ELSE IF name \in ClassAttributes(e.cls) THEN None
    ELSE "<AttributeError>"

\* hasattr(e, name)
HasAttr(e, name) == name \in DOMAIN e.attrs \cup ClassAttributes(e.cls)

Create(api_data) ==
    /\ event' = [op |-> "create", data |-> api_data, out |-> EventCreate(api_data)]
    /\ UNCHANGED <<global_client, sdk, allocated, ret>>

---------------------------------------------------------------------------
(* One event decoded from any payload.                                     *)

\* The values of the event type: the registry keys, and the empty string,
\* an unregistered name and null.
EventTypes == DOMAIN _events \cup {"", "bogus", None}

\* What each wire key may hold in a payload.
Choices ==
    [eventType       : {Missing} \cup EventTypes,
     event_type      : {Missing} \cup EventTypes,
     callId          : {Missing, "c1"},
     from            : {Missing, None, "", "+15551234567"},
     from_           : {Missing, "+15550000000"},
     to              : {Missing, "+15557654321"},
     status          : {Missing, "done"},
     extraneousField : {Missing, "x"}]

\* The decoded payload: the keys it holds and their values.  No two keys of
\* one payload are the same field in two spellings.
PayloadOf(c) == [w \in {w \in DOMAIN c : c[w] # Missing} |-> c[w]]

Payloads ==
    {PayloadOf(c) : c \in {c \in Choices :
                             c.eventType = Missing \/ c.event_type = Missing}}

Decode ==
    /\ event.op = "none"
    /\ \E api_data \in Payloads : Create(api_data)

NextEvents == Decode

SpecEvents == Init /\ [][NextEvents]_vars

---------------------------------------------------------------------------
(* Properties of the event factory (SpecEvents) *)

Created == event.op = "create"

\* The payload after key normalisation, as Event.create sees it.
Normalized == from_api(event.data)

\* C7: the registry has 15 keys; a payload whose event_type ('' when the
\* key is absent) is none of them makes Event.create raise ValueError
\* naming the payload and build no event; a payload whose event_type is a
\* registry key yields an instance of the class registered under it.
C7_UnknownEventTypeRaises ==
    /\ Cardinality(DOMAIN _events) = 15
    /\ Created =>
        LET event_type == IF "event_type" \in DOMAIN Normalized
                          THEN Normalized["event_type"] ELSE ""
        IN  IF event_type \in DOMAIN _events
            THEN /\ event.out.kind = "return"
                 /\ event.out.cls = _events[event_type]
            ELSE /\ event.out.kind = "raise"
                 /\ event.out.exc = "ValueError"
                 /\ event.out.named = Normalized
                 /\ event.out.cls = ""
                 /\ event.out.attrs = NoAttributes

\* A payload with fields and no event type at all is refused.
C7_Witness ==
    /\ Created
    /\ "event_type" \notin DOMAIN Normalized
    /\ "call_id" \in DOMAIN Normalized
    /\ event.out.kind = "raise"

\* C8 as stated: the attributes set on the instance are declared fields of
\* its class; every payload key that is a declared field is set to the
\* payload's value; every other key is dropped.
C8_DeclaredKeysKeepPayloadValue ==
    Created /\ event.out.kind = "return" =>
        /\ DOMAIN event.out.attrs \subseteq _fields(event.out.cls)
        /\ \A k \in DOMAIN Normalized :
              IF k \in _fields(event.out.cls)
              THEN /\ k \in DOMAIN event.out.attrs
                   /\ event.out.attrs[k] = Normalized[k]
              ELSE k \notin DOMAIN event.out.attrs

\* C8 amended: the attributes set on the instance are declared fields of
\* its class and come from the payload; every key of the normalised payload
\* that is a declared field is set to the payload's value, and every other
\* key is dropped -- except from_ in a payload that also holds 'from',
\* where the renaming of 'from' decides what from_ holds.
C8_AttributesWithinDeclaredFields ==
    Created /\ event.out.kind = "return" =>
        LET renaming == "from" \in DOMAIN Normalized
        IN  /\ DOMAIN event.out.attrs \subseteq _fields(event.out.cls)
            /\ DOMAIN event.out.attrs \subseteq
                  DOMAIN Normalized \cup (IF renaming THEN {"from_"} ELSE {})
            /\ \A k \in DOMAIN Normalized :
                  IF k \in _fields(event.out.cls)
                  THEN /\ k \in DOMAIN event.out.attrs
                       /\ \/ k = "from_" /\ renaming
                          \/ event.out.attrs[k] = Normalized[k]
                  ELSE k \notin DOMAIN event.out.attrs

\* The hangup payload with callId and extraneousField.
C8_Witness ==
    /\ Created
    /\ event.out.cls = "HangupCallEvent"
    /\ "callId" \in DOMAIN event.data
    /\ "extraneousField" \in DOMAIN event.data
    /\ GetAttr(event.out, "call_id") = "c1"
    /\ ~HasAttr(event.out, "extraneous_field")

\* C9: a payload that holds 'from', decoded into a class that declares
\* from_, yields an instance whose from_ is the payload's 'from' value and
\* which has no attribute 'from'.
C9_FromIsRenamed ==
    /\ Created
    /\ event.out.kind = "return"
    /\ "from" \in DOMAIN Normalized
    /\ "from_" \in _fields(event.out.cls)
    => /\ GetAttr(event.out, "from_") = Normalized["from"]
       /\ ~HasAttr(event.out, "from")

---------------------------------------------------------------------------
(* The environment branch of one resolution (SpecResolve) *)

\* The three credential variables of the resolver of op, id first.
CredVarsInOrder(op) ==
    IF op = "Client"
    THEN <<"BANDWIDTH_USER_ID", "BANDWIDTH_API_TOKEN", "BANDWIDTH_API_SECRET">>
    ELSE <<"BANDWIDTH_ACCOUNT_ID", "BANDWIDTH_USERNAME", "BANDWIDTH_PASSWORD">>

\* What the environment holds under them.
EnvironCreds(op, environ) ==
    [i \in 1..3 |-> EnvironGet(environ, CredVarsInOrder(op)[i])]

\* C11: without arguments and with all three credential variables of the
\* resolver set and non-empty, the resolution returns a handle carrying
\* exactly the three environment values; after a dashboard resolution the
\* module attributes account_id, username and password hold them too.
C11_EnvironmentCredentialsUsed ==
    /\ IsResolution
    /\ Given(ret.args) = 0
    /\ All3(EnvironCreds(ret.op, ret.environ))
    => /\ Succeeded(EnvironCreds(ret.op, ret.environ))
       /\ IsDashboardCall(ret) =>
              <<sdk.account_id, sdk.username, sdk.password>>
                  = EnvironCreds(ret.op, ret.environ)

====
